---------------------------- MODULE Spec2Model ----------------------------
(***************************************************************************)
(* Ledger logic of the banking application: the relational implementation *)
(* (src/main.py, sqlite3) and the document-store implementation           *)
(* (src/Firebase_code.py, Firestore).  Each handler is an operator from   *)
(* the store before the call, the call's arguments and the store write    *)
(* that fails (0: none) to the store after the call and the value         *)
(* returned.  Money entered by a caller is an integer; the figures of a   *)
(* loan that the code divides (interest, instalment, remaining amount)    *)
(* are exact rationals [num, den].  Floating-point rounding is not        *)
(* modelled.                                                              *)
(***************************************************************************)
EXTENDS Integers, Sequences, FiniteSets, TLC

VARIABLES
    impl,            \* which BankingSystem class serves this run
    accounts,        \* accounts table / collection: account_no -> row
    transactions,    \* transactions table / collection, in insertion order
    loans,           \* loans table / collection, in insertion order (loan_id = index)
    in_transaction,  \* sqlite3 connection: a transaction is open
    now,             \* wall clock, in days
    faults,          \* calls made so far with a store write set to raise
    result,          \* the last call, the write of it set to raise, what it returned
    twin,            \* the document store of a Firebase_code.py run fed the same calls
    calls            \* session -> its call in flight on the document store

vars == <<impl, accounts, transactions, loans, in_transaction, now, faults, result,
          twin, calls>>

----------------------------------------------------------------------------
(* Bounds of the model and the inputs the callers draw from.               *)

MaxTransactions == 3
MaxLoans == 1
MaxFaults == 1

AccountIds == {"A1", "A2"}
Names == {"n1"}
Passwords == {"pw1"}
Emails == {"a@x.io", "b@x.io"}
Amounts == {1, 2}
Kinds == {"deposit", "withdraw"}
Categories == {"Other"}
Terms == {12}
Rates == {50}
LoanIds == 1 .. (MaxLoans + 1)
None == "None"

----------------------------------------------------------------------------
(* Exact rationals for the loan arithmetic.                                *)

Abs(x) == IF x < 0 THEN -x ELSE x

RECURSIVE GCD(_, _)
GCD(a, b) == IF b = 0 THEN a ELSE GCD(b, a % b)

Rational(n, d) ==
    LET g == GCD(Abs(n), d)
    IN  IF n = 0 THEN [num |-> 0, den |-> 1]
        ELSE [num |-> n \div g, den |-> d \div g]

FromInt(n) == [num |-> n, den |-> 1]
RatAdd(p, q) == Rational(p.num * q.den + q.num * p.den, p.den * q.den)
RatSub(p, q) == Rational(p.num * q.den - q.num * p.den, p.den * q.den)
RatDivInt(p, k) == Rational(p.num, p.den * k)
RatLeqZero(p) == p.num <= 0

----------------------------------------------------------------------------
(* The store and what a call returns.                                      *)

Store == [accounts |-> accounts, transactions |-> transactions,
          loans |-> loans, in_transaction |-> in_transaction]

\* No account, no record, no loan, no transaction open.
EmptyStore ==
    [accounts |-> << >>, transactions |-> << >>, loans |-> << >>,
     in_transaction |-> FALSE]

Put(f, k, v) == [x \in (DOMAIN f) \cup {k} |-> IF x = k THEN v ELSE f[x]]

\* A value returned to the caller, and an exception that leaves the handler.
Outcome(db, ok, reason) == [db |-> db, ok |-> ok, reason |-> reason, raised |-> FALSE]
Raised(db, reason) == [db |-> db, ok |-> FALSE, reason |-> reason, raised |-> TRUE]

\* The store a handler leaves when its fault-th write raises: steps[1] is the
\* store before the first write, steps[k + 1] the store after the k-th.
Completed(steps, fault) == fault = 0 \/ fault >= Len(steps)

Transaction(account_no, transaction_type, amount, category, recipient_account, timestamp) ==
    [account_no |-> account_no, transaction_type |-> transaction_type,
     amount |-> amount, category |-> category,
     recipient_account |-> recipient_account, timestamp |-> timestamp]

----------------------------------------------------------------------------
(* src/main.py: sqlite3, legacy transaction control.                        *)

main_get_balance(db, account_no) ==
    IF account_no \in DOMAIN db.accounts THEN db.accounts[account_no].balance ELSE 0

\* UPDATE accounts SET balance = balance + ? WHERE account_no = ?
main_update_balance(db, account_no, delta) ==
    IF account_no \in DOMAIN db.accounts
    THEN [db EXCEPT !.accounts[account_no].balance = @ + delta]
    ELSE db

\* INSERT INTO transactions (...): foreign keys are declared, not enforced.
main_insert_transaction(db, account_no, transaction_type, amount, category, recipient_account) ==
    [db EXCEPT !.transactions =
        Append(@, Transaction(account_no, transaction_type, amount, category,
                              recipient_account, now))]

\* ROLLBACK or COMMIT: the connection is out of its transaction.
main_closed(db) == [db EXCEPT !.in_transaction = FALSE]

\* A withdrawal check that lets one unit too much through.
main_withdraw_declined_off_by_one(transaction_type, amount, current_balance) ==
    transaction_type = "withdraw" /\ amount > current_balance + 1

main_withdraw_declined(transaction_type, amount, current_balance) ==
    transaction_type = "withdraw" /\ amount > current_balance

main_balance_delta(transaction_type, amount) ==
    IF transaction_type = "deposit" THEN amount
    ELSE IF transaction_type = "withdraw" THEN -amount
    ELSE 0

main_record_transaction(db, account_no, transaction_type, amount, category, recipient_account, fault) ==
    IF db.in_transaction
    THEN \* BEGIN inside a transaction raises; the handler rolls back
         Outcome(main_closed(db), FALSE, "")
    ELSE IF main_withdraw_declined(transaction_type, amount, main_get_balance(db, account_no))
    THEN Outcome(main_closed(db), FALSE, "")
    ELSE
        LET s1 == main_insert_transaction(db, account_no, transaction_type, amount,
                                          category, recipient_account)
            s2 == main_update_balance(s1, account_no,
                                      main_balance_delta(transaction_type, amount))
            steps == IF transaction_type \in {"deposit", "withdraw"}
                     THEN <<db, s1, s2>> ELSE <<db, s1>>
        IN  IF Completed(steps, fault)
            THEN Outcome(main_closed(steps[Len(steps)]), TRUE, "")
            ELSE Outcome(main_closed(db), FALSE, "")

main_transfer_out(from_account, to_account, amount) ==
    Transaction(from_account, "transfer_out", amount, "Transfer", to_account, now)

\* A transfer_in record that names its own account as the counterparty.
main_transfer_in_wrong_party(from_account, to_account, amount) ==
    Transaction(to_account, "transfer_in", amount, "Transfer", to_account, now)

main_transfer_in(from_account, to_account, amount) ==
    Transaction(to_account, "transfer_in", amount, "Transfer", from_account, now)

main_insufficient_funds(amount, sender_balance) == amount > sender_balance

main_transfer_money(db, from_account, to_account, amount, fault) ==
    IF to_account \notin DOMAIN db.accounts
    THEN Outcome(db, FALSE, "Recipient account not found")
    ELSE IF main_insufficient_funds(amount, main_get_balance(db, from_account))
    THEN Outcome(db, FALSE, "Insufficient funds")
    ELSE IF db.in_transaction
    THEN Outcome(main_closed(db), FALSE, "Transfer failed")
    ELSE
        LET s1 == main_update_balance(db, from_account, -amount)
            s2 == main_update_balance(s1, to_account, amount)
            s3 == [s2 EXCEPT !.transactions =
                      Append(@, main_transfer_out(from_account, to_account, amount))]
            s4 == [s3 EXCEPT !.transactions =
                      Append(@, main_transfer_in(from_account, to_account, amount))]
            steps == <<db, s1, s2, s3, s4>>
        IN  IF Completed(steps, fault)
            THEN Outcome(main_closed(s4), TRUE, "Transfer successful")
            ELSE Outcome(main_closed(db), FALSE, "Transfer failed")

\* total_interest, total_amount and monthly_payment of a loan.
total_interest(amount, interest_rate, term_months) ==
    Rational(amount * interest_rate * term_months, 12 * 100)

\* A total that leaves the interest out.
total_amount_without_interest(amount, interest_rate, term_months) ==
    FromInt(amount)

total_amount(amount, interest_rate, term_months) ==
    RatAdd(FromInt(amount), total_interest(amount, interest_rate, term_months))

\* An instalment that divides the principal alone over the term.
monthly_payment_of_principal(amount, interest_rate, term_months) ==
    RatDivInt(FromInt(amount), term_months)

monthly_payment(amount, interest_rate, term_months) ==
    RatDivInt(total_amount(amount, interest_rate, term_months), term_months)

PaymentPeriodDays == 30

Loan(account_no, amount, interest_rate, term_months) ==
    [account_no |-> account_no, amount |-> amount, interest_rate |-> interest_rate,
     term_months |-> term_months,
     monthly_payment |-> monthly_payment(amount, interest_rate, term_months),
     remaining_amount |-> total_amount(amount, interest_rate, term_months),
     status |-> "active", start_date |-> now,
     next_payment_date |-> now + PaymentPeriodDays]

main_apply_for_loan(db, account_no, amount, term_months, interest_rate, fault) ==
    IF term_months = 0
    THEN \* ZeroDivisionError, then conn.rollback()
         Outcome(main_closed(db), FALSE, "Loan application failed")
    ELSE
        LET s1 == [db EXCEPT !.loans =
                      Append(@, Loan(account_no, amount, interest_rate, term_months))]
            s2 == main_update_balance(s1, account_no, amount)
            s3 == main_insert_transaction(s2, account_no, "loan_disbursement", amount,
                                          "Loan", None)
            steps == <<db, s1, s2, s3>>
        IN  IF Completed(steps, fault)
            THEN Outcome(main_closed(s3), TRUE, "Loan approved")
            ELSE Outcome(main_closed(db), FALSE, "Loan application failed")

\* A status that never leaves active.
loan_status_always_active(new_remaining) == "active"

\* status = CASE WHEN remaining_amount - ? <= 0 THEN 'completed' ELSE 'active' END
loan_status(new_remaining) ==
    IF RatLeqZero(new_remaining) THEN "completed" ELSE "active"

loan_after_payment(loan, payment_amount) ==
    LET new_remaining == RatSub(loan.remaining_amount, FromInt(payment_amount))
    IN  [loan EXCEPT !.remaining_amount = new_remaining,
                     !.next_payment_date = now + PaymentPeriodDays,
                     !.status = loan_status(new_remaining)]

\* SELECT ... FROM loans WHERE loan_id = ? AND status = 'active' finds a row.
main_active_loan(db, loan_id) ==
    loan_id \in DOMAIN db.loans /\ db.loans[loan_id].status = "active"

main_make_loan_payment(db, loan_id, payment_amount, fault) ==
    IF db.in_transaction
    THEN Outcome(main_closed(db), FALSE, "Payment failed")
    ELSE IF ~main_active_loan(db, loan_id)
    THEN Outcome(main_closed(db), FALSE, "Loan not found or inactive")
    ELSE
        LET loan == db.loans[loan_id]
            balance == main_get_balance(db, loan.account_no)
        IN  IF balance < payment_amount
            THEN Outcome(main_closed(db), FALSE, "Insufficient funds")
            ELSE
                LET s1 == [db EXCEPT !.loans[loan_id] =
                              loan_after_payment(loan, payment_amount)]
                    s2 == main_update_balance(s1, loan.account_no, -payment_amount)
                    s3 == main_insert_transaction(s2, loan.account_no, "loan_payment",
                                                  payment_amount, "Loan Payment", None)
                    steps == <<db, s1, s2, s3>>
                IN  IF Completed(steps, fault)
                    THEN Outcome(main_closed(s3), TRUE, "Payment successful")
                    ELSE Outcome(main_closed(db), FALSE, "Payment failed")

\* ^[a-zA-Z0-9._%+-]+@[a-zA-Z0-9.-]+\.[a-zA-Z]{2,}$ on the addresses callers enter.
validate_email(email) == email \in {"a@x.io", "b@x.io"}

hash_password(password) == <<"sha256", password>>

Account(name, password, email) ==
    [name |-> name, password |-> hash_password(password), email |-> email, balance |-> 0]

\* A lookup that finds no address registered.
email_registered_never(db, email) == FALSE

email_registered(db, email) ==
    \E a \in DOMAIN db.accounts : db.accounts[a].email = email

\* account_no is what str(uuid.uuid4())[:8].upper() gave this call.  The INSERT
\* opens a transaction that only commit() closes.
main_create_account(db, name, password, email, account_no, fault) ==
    IF ~validate_email(email)
    THEN Raised(db, "Error creating account: Invalid email format")
    ELSE IF email_registered(db, email)
    THEN Raised([db EXCEPT !.in_transaction = TRUE], "Email already registered")
    ELSE IF account_no \in DOMAIN db.accounts
    THEN Raised([db EXCEPT !.in_transaction = TRUE],
                "UNIQUE constraint failed: accounts.account_no")
    ELSE IF fault = 1
    THEN Raised([db EXCEPT !.in_transaction = TRUE], "Error creating account")
    ELSE Outcome(main_closed([db EXCEPT !.accounts =
                                 Put(@, account_no, Account(name, password, email))]),
                 TRUE, account_no)

\* ORDER BY timestamp DESC.  Rows of one timestamp stay in insertion order, as
\* sqlite's sorter leaves them; the code fixes no order among them.
RECURSIVE newest_first(_)
newest_first(rows) ==
    IF rows = << >> THEN << >>
    ELSE LET rest == newest_first(Tail(rows))
             first == Head(rows)
         IN  SelectSeq(rest, LAMBDA r : r.timestamp > first.timestamp)
                \o <<first>>
                \o SelectSeq(rest, LAMBDA r : r.timestamp <= first.timestamp)

\* SELECT transaction_type, amount, timestamp, category, recipient_account
main_history_row(t) ==
    [transaction_type |-> t.transaction_type, amount |-> t.amount,
     timestamp |-> t.timestamp, category |-> t.category,
     recipient_account |-> t.recipient_account]

main_get_transaction_history(db, account_no) ==
    LET owned == SelectSeq(db.transactions, LAMBDA t : t.account_no = account_no)
    IN  newest_first([i \in DOMAIN owned |-> main_history_row(owned[i])])

\* SELECT account_no, name, email, balance ... WHERE account_no = ? AND
\* password = ?; an exception of the query is caught and None returned.
main_validate_login(db, account_no, password, fault) ==
    IF fault = 1
    THEN [row |-> None, raised |-> FALSE]
    ELSE IF /\ account_no \in DOMAIN db.accounts
            /\ db.accounts[account_no].password = hash_password(password)
    THEN [row |-> <<account_no, db.accounts[account_no].name,
                    db.accounts[account_no].email, db.accounts[account_no].balance>>,
          raised |-> FALSE]
    ELSE [row |-> None, raised |-> FALSE]

\* __init__: os.remove("banking.db") when the file exists, then a new
\* connection and CREATE TABLE IF NOT EXISTS on the empty file.
main_init(db) == EmptyStore

----------------------------------------------------------------------------
(* src/Firebase_code.py: Firestore, one document write at a time.           *)

\* A write that keeps the larger of the balance stored and the balance written.
fb_set_balance_keeps_larger(db, account_no, balance) ==
    [db EXCEPT !.accounts[account_no].balance = IF @ > balance THEN @ ELSE balance]

\* document(account_no).update({"balance": balance}): an absolute write.
fb_set_balance(db, account_no, balance) ==
    [db EXCEPT !.accounts[account_no].balance = balance]

fb_add_transaction(db, txn) == [db EXCEPT !.transactions = Append(@, txn)]

\* A withdrawal check that lets one unit too much through.
fb_withdraw_declined_off_by_one(txn_type, amount, balance) ==
    txn_type = "withdraw" /\ amount > balance + 1

fb_withdraw_declined(txn_type, amount, balance) ==
    txn_type = "withdraw" /\ amount > balance

\* A new balance that adds the amount whatever the type.
fb_new_balance_always_adds(balance, txn_type, amount) ==
    balance + amount

fb_new_balance(balance, txn_type, amount) ==
    IF txn_type = "deposit" THEN balance + amount ELSE balance - amount

fb_record_transaction(db, account_no, txn_type, amount, category, recipient, fault) ==
    IF account_no \notin DOMAIN db.accounts
    THEN \* account is None: AttributeError, caught
         Outcome(db, FALSE, "")
    ELSE
        LET balance == db.accounts[account_no].balance
            s1 == fb_set_balance(db, account_no, fb_new_balance(balance, txn_type, amount))
            s2 == fb_add_transaction(s1, Transaction(account_no, txn_type, amount,
                                                     category, recipient, now))
            steps == <<db, s1, s2>>
        IN  IF fb_withdraw_declined(txn_type, amount, balance)
            THEN Outcome(db, FALSE, "")
            ELSE IF Completed(steps, fault)
            THEN Outcome(s2, TRUE, "")
            ELSE Outcome(steps[fault], FALSE, "")

\* The second record is written under the key "       timestamp": it has no
\* "timestamp" field.
NoTimestamp == -1

fb_transfer_out(from_acc, to_acc, amount) ==
    Transaction(from_acc, "transfer_out", amount, "Transfer", to_acc, now)

fb_transfer_in(from_acc, to_acc, amount) ==
    Transaction(to_acc, "transfer_in", amount, "Transfer", from_acc, NoTimestamp)

\* A funds check that lets one unit too much through.
fb_insufficient_funds_off_by_one(sender_balance, amount) ==
    sender_balance + 1 < amount

fb_insufficient_funds(sender_balance, amount) == sender_balance < amount

\* sender and receiver are the two documents as read before any write.
fb_transfer_money(db, from_acc, to_acc, amount, fault) ==
    IF to_acc \notin DOMAIN db.accounts
    THEN Outcome(db, FALSE, "Recipient account not found")
    ELSE IF from_acc \notin DOMAIN db.accounts
    THEN \* sender_data is None: TypeError, caught
         Outcome(db, FALSE, "Transfer failed")
    ELSE
        LET sender_data == db.accounts[from_acc]
            receiver == db.accounts[to_acc]
            s1 == fb_set_balance(db, from_acc, sender_data.balance - amount)
            s2 == fb_set_balance(s1, to_acc, receiver.balance + amount)
            s3 == fb_add_transaction(s2, fb_transfer_out(from_acc, to_acc, amount))
            s4 == fb_add_transaction(s3, fb_transfer_in(from_acc, to_acc, amount))
            steps == <<db, s1, s2, s3, s4>>
        IN  IF fb_insufficient_funds(sender_data.balance, amount)
            THEN Outcome(db, FALSE, "Insufficient funds")
            ELSE IF Completed(steps, fault)
            THEN Outcome(s4, TRUE, "Transfer successful")
            ELSE Outcome(steps[fault], FALSE, "Transfer failed")

fb_apply_for_loan(db, account_no, amount, term_months, interest_rate, fault) ==
    IF term_months = 0 \/ account_no \notin DOMAIN db.accounts
    THEN \* ZeroDivisionError, or acc_data is None: TypeError; caught
         Outcome(db, FALSE, "Loan failed")
    ELSE
        LET acc_data == db.accounts[account_no]
            s1 == fb_set_balance(db, account_no, acc_data.balance + amount)
            s2 == [s1 EXCEPT !.loans =
                      Append(@, Loan(account_no, amount, interest_rate, term_months))]
            s3 == fb_add_transaction(s2, Transaction(account_no, "loan_disbursement",
                                                     amount, "Loan", None, now))
            steps == <<db, s1, s2, s3>>
        IN  IF Completed(steps, fault)
            THEN Outcome(s3, TRUE, "Loan approved")
            ELSE Outcome(steps[fault], FALSE, "Loan failed")

\* A lookup that accepts a loan of any status.
fb_active_loan_any_status(db, loan_id) == loan_id \in DOMAIN db.loans

\* not (not loan or loan["status"] != "active")
fb_active_loan(db, loan_id) ==
    loan_id \in DOMAIN db.loans /\ db.loans[loan_id].status = "active"

fb_make_loan_payment(db, loan_id, payment_amount, fault) ==
    IF ~fb_active_loan(db, loan_id)
    THEN Outcome(db, FALSE, "Loan not found or inactive")
    ELSE IF db.loans[loan_id].account_no \notin DOMAIN db.accounts
    THEN Outcome(db, FALSE, "Payment failed")
    ELSE
        LET loan == db.loans[loan_id]
            acc == db.accounts[loan.account_no]
            s1 == [db EXCEPT !.loans[loan_id] = loan_after_payment(loan, payment_amount)]
            s2 == fb_set_balance(s1, loan.account_no, acc.balance - payment_amount)
            s3 == fb_add_transaction(s2, Transaction(loan.account_no, "loan_payment",
                                                     payment_amount, "Loan Payment",
                                                     None, now))
            steps == <<db, s1, s2, s3>>
        IN  IF acc.balance < payment_amount
            THEN Outcome(db, FALSE, "Insufficient funds")
            ELSE IF Completed(steps, fault)
            THEN Outcome(s3, TRUE, "Payment successful")
            ELSE Outcome(steps[fault], FALSE, "Payment failed")

\* document(account_no).set(...) replaces whatever document has that id.
fb_create_account(db, name, password, email, account_no, fault) ==
    IF ~validate_email(email)
    THEN Raised(db, "Invalid email format")
    ELSE IF email_registered(db, email)
    THEN Raised(db, "Email already registered")
    ELSE IF fault = 1
    THEN Raised(db, "store failure")
    ELSE Outcome([db EXCEPT !.accounts =
                     Put(@, account_no, Account(name, password, email))],
                 TRUE, account_no)

\* where("account_no", "==", ...).order_by("timestamp", DESCENDING): a query
\* ordered by a field returns only the documents that have the field.
fb_has_timestamp(t) == t.timestamp # NoTimestamp

fb_get_transaction_history(db, account_no) ==
    newest_first(SelectSeq(db.transactions,
                           LAMBDA t : t.account_no = account_no /\ fb_has_timestamp(t)))

\* doc.to_dict()["password"] == hashed_pw
fb_password_matches(user, password) == user.password = hash_password(password)

\* document(account_no).get() is not guarded: what it raises leaves the handler.
fb_validate_login(db, account_no, password, fault) ==
    IF fault = 1
    THEN [row |-> None, raised |-> TRUE]
    ELSE IF /\ account_no \in DOMAIN db.accounts
            /\ fb_password_matches(db.accounts[account_no], password)
    THEN [row |-> <<account_no, db.accounts[account_no].name,
                    db.accounts[account_no].email, db.accounts[account_no].balance>>,
          raised |-> FALSE]
    ELSE [row |-> None, raised |-> FALSE]

\* __init__: firestore.client() on the project's database, as it is.
fb_init(db) == db

----------------------------------------------------------------------------
(* src/Firebase_code.py with several callers at once.  A call is a series  *)
(* of document reads and writes; nothing ties them together, so the reads  *)
(* and writes of other calls may come between any two of them.  A call in  *)
(* flight holds what it has read and the writes it has yet to make, each   *)
(* computed from what it read.                                             *)

\* document(id).get(): the document as it is stored at this moment.
fb_get_account(db, account_no) ==
    IF account_no \in DOMAIN db.accounts
    THEN [exists |-> TRUE, data |-> db.accounts[account_no]]
    ELSE [exists |-> FALSE]

fb_get_loan(db, loan_id) ==
    IF loan_id \in DOMAIN db.loans
    THEN [exists |-> TRUE, data |-> db.loans[loan_id]]
    ELSE [exists |-> FALSE]

BalanceWrite(account_no, balance) ==
    [kind |-> "balance", account_no |-> account_no, balance |-> balance]
TransactionWrite(txn) == [kind |-> "transaction", txn |-> txn]
LoanWrite(loan_id, loan) == [kind |-> "loan", loan_id |-> loan_id, loan |-> loan]
AccountWrite(account_no, account) ==
    [kind |-> "account", account_no |-> account_no, account |-> account]

\* update({"balance": ...}), collection("transactions").add(...),
\* loan_ref.update({remaining_amount, next_payment_date, status}),
\* document(account_no).set(...).
fb_write(db, w) ==
    CASE w.kind = "balance" -> fb_set_balance(db, w.account_no, w.balance)
      [] w.kind = "transaction" -> fb_add_transaction(db, w.txn)
      [] w.kind = "loan" ->
            [db EXCEPT !.loans[w.loan_id].remaining_amount = w.loan.remaining_amount,
                       !.loans[w.loan_id].next_payment_date = w.loan.next_payment_date,
                       !.loans[w.loan_id].status = w.loan.status]
      [] w.kind = "account" ->
            [db EXCEPT !.accounts = Put(@, w.account_no, w.account)]

\* The call has read `read` and goes on at pc; it has returned r, or will
\* return r once the writes in pending are made.
Reading(call, pc, read) ==
    [call |-> call, pc |-> pc, read |-> read, pending |-> << >>,
     ok |-> FALSE, reason |-> "", raised |-> FALSE]
Writing(call, read, pending, reason) ==
    [call |-> call, pc |-> "write", read |-> read, pending |-> pending,
     ok |-> TRUE, reason |-> reason, raised |-> FALSE]
Returned(call, read, reason) ==
    [call |-> call, pc |-> "returned", read |-> read, pending |-> << >>,
     ok |-> FALSE, reason |-> reason, raised |-> FALSE]
HasRaised(call, read, reason) ==
    [call |-> call, pc |-> "returned", read |-> read, pending |-> << >>,
     ok |-> FALSE, reason |-> reason, raised |-> TRUE]

\* record_transaction: account_ref.get(), the check, and the two writes to come.
fb_record_transaction_read(db, call) ==
    LET account == fb_get_account(db, call.account_no)
    IN  IF ~account.exists
        THEN Returned(call, <<account>>, "")
        ELSE IF fb_withdraw_declined(call.transaction_type, call.amount,
                                     account.data.balance)
        THEN Returned(call, <<account>>, "")
        ELSE Writing(call, <<account>>,
                     << BalanceWrite(call.account_no,
                                     fb_new_balance(account.data.balance,
                                                    call.transaction_type, call.amount)),
                        TransactionWrite(Transaction(call.account_no,
                                                     call.transaction_type, call.amount,
                                                     call.category, None, now)) >>,
                     "")

\* transfer_money: sender = document(from_acc).get()
fb_transfer_money_read_sender(db, call) ==
    Reading(call, "receiver", <<fb_get_account(db, call.from_account)>>)

\* transfer_money: receiver = document(to_acc).get(), the checks, and the four
\* writes to come.
fb_transfer_money_read_receiver(db, c) ==
    LET call == c.call
        sender == c.read[1]
        receiver == fb_get_account(db, call.to_account)
        read == <<sender, receiver>>
    IN  IF ~receiver.exists
        THEN Returned(call, read, "Recipient account not found")
        ELSE IF ~sender.exists
        THEN Returned(call, read, "Transfer failed")
        ELSE IF fb_insufficient_funds(sender.data.balance, call.amount)
        THEN Returned(call, read, "Insufficient funds")
        ELSE Writing(call, read,
                     << BalanceWrite(call.from_account,
                                     sender.data.balance - call.amount),
                        BalanceWrite(call.to_account,
                                     receiver.data.balance + call.amount),
                        TransactionWrite(fb_transfer_out(call.from_account,
                                                         call.to_account, call.amount)),
                        TransactionWrite(fb_transfer_in(call.from_account,
                                                        call.to_account, call.amount)) >>,
                     "Transfer successful")

\* make_loan_payment: loan = loan_ref.get().to_dict() and the status check.
fb_make_loan_payment_read_loan(db, call) ==
    IF ~fb_active_loan(db, call.loan_id)
    THEN Returned(call, <<fb_get_loan(db, call.loan_id)>>, "Loan not found or inactive")
    ELSE Reading(call, "account", <<fb_get_loan(db, call.loan_id)>>)

\* make_loan_payment: acc = acc_ref.get().to_dict(), the funds check, and the
\* three writes to come.
fb_make_loan_payment_read_account(db, c) ==
    LET call == c.call
        loan == c.read[1].data
        acc == fb_get_account(db, loan.account_no)
        read == <<c.read[1], acc>>
    IN  IF ~acc.exists
        THEN Returned(call, read, "Payment failed")
        ELSE IF acc.data.balance < call.payment_amount
        THEN Returned(call, read, "Insufficient funds")
        ELSE Writing(call, read,
                     << LoanWrite(call.loan_id,
                                  loan_after_payment(loan, call.payment_amount)),
                        BalanceWrite(loan.account_no,
                                     acc.data.balance - call.payment_amount),
                        TransactionWrite(Transaction(loan.account_no, "loan_payment",
                                                     call.payment_amount,
                                                     "Loan Payment", None, now)) >>,
                     "Payment successful")

\* create_account: the format check, the query on the address, and the
\* document to be set under the identifier uuid4 gave.
fb_create_account_query(db, call) ==
    IF ~validate_email(call.email)
    THEN HasRaised(call, << >>, "Invalid email format")
    ELSE IF email_registered(db, call.email)
    THEN HasRaised(call, << >>, "Email already registered")
    ELSE Writing(call, << >>,
                 << AccountWrite(call.account_no,
                                 Account(call.name, call.password, call.email)) >>,
                 call.account_no)

----------------------------------------------------------------------------
(* The service: the handler of the class in use, applied to the store.      *)

create_account(db, name, password, email, account_no, fault) ==
    IF impl = "main"
    THEN main_create_account(db, name, password, email, account_no, fault)
    ELSE fb_create_account(db, name, password, email, account_no, fault)

record_transaction(db, account_no, transaction_type, amount, category, fault) ==
    IF impl = "main"
    THEN main_record_transaction(db, account_no, transaction_type, amount, category, None, fault)
    ELSE fb_record_transaction(db, account_no, transaction_type, amount, category, None, fault)

transfer_money(db, from_account, to_account, amount, fault) ==
    IF impl = "main"
    THEN main_transfer_money(db, from_account, to_account, amount, fault)
    ELSE fb_transfer_money(db, from_account, to_account, amount, fault)

apply_for_loan(db, account_no, amount, term_months, interest_rate, fault) ==
    IF impl = "main"
    THEN main_apply_for_loan(db, account_no, amount, term_months, interest_rate, fault)
    ELSE fb_apply_for_loan(db, account_no, amount, term_months, interest_rate, fault)

make_loan_payment(db, loan_id, payment_amount, fault) ==
    IF impl = "main"
    THEN main_make_loan_payment(db, loan_id, payment_amount, fault)
    ELSE fb_make_loan_payment(db, loan_id, payment_amount, fault)

get_transaction_history(db, account_no) ==
    IF impl = "main"
    THEN main_get_transaction_history(db, account_no)
    ELSE fb_get_transaction_history(db, account_no)

validate_login(db, account_no, password, fault) ==
    IF impl = "main"
    THEN main_validate_login(db, account_no, password, fault)
    ELSE fb_validate_login(db, account_no, password, fault)

new_banking_system(db) ==
    IF impl = "main" THEN main_init(db) ELSE fb_init(db)

\* The call leaves the store r.db and returns r to the caller.  A call whose
\* fault-th write is set to raise (fault > 0) is made at most MaxFaults times.
Returns(call, r, fault) ==
    /\ fault = 0 \/ faults < MaxFaults
    /\ faults' = IF fault = 0 THEN faults ELSE faults + 1
    /\ accounts' = r.db.accounts
    /\ transactions' = r.db.transactions
    /\ loans' = r.db.loans
    /\ in_transaction' = r.db.in_transaction
    /\ result' = [call |-> call, fault |-> fault, ok |-> r.ok, reason |-> r.reason,
                  raised |-> r.raised]
    /\ UNCHANGED <<impl, now, twin, calls>>

\* The model stops calling once the log or the loan table is at its bound.
RoomFor(n) == Len(transactions) + n <= MaxTransactions

DoCreateAccount(name, password, email, account_no, fault) ==
    Returns([op |-> "create_account", name |-> name, password |-> password,
             email |-> email, account_no |-> account_no],
            create_account(Store, name, password, email, account_no, fault), fault)

DoRecordTransaction(account_no, transaction_type, amount, category, fault) ==
    /\ RoomFor(1)
    /\ Returns([op |-> "record_transaction", account_no |-> account_no,
                transaction_type |-> transaction_type, amount |-> amount],
               record_transaction(Store, account_no, transaction_type, amount,
                                  category, fault), fault)

DoTransferMoney(from_account, to_account, amount, fault) ==
    /\ RoomFor(2)
    /\ Returns([op |-> "transfer_money", from_account |-> from_account,
                to_account |-> to_account, amount |-> amount],
               transfer_money(Store, from_account, to_account, amount, fault), fault)

DoApplyForLoan(account_no, amount, term_months, interest_rate, fault) ==
    /\ RoomFor(1)
    /\ Len(loans) < MaxLoans
    /\ Returns([op |-> "apply_for_loan", account_no |-> account_no, amount |-> amount,
                term_months |-> term_months, interest_rate |-> interest_rate],
               apply_for_loan(Store, account_no, amount, term_months, interest_rate,
                              fault), fault)

DoMakeLoanPayment(loan_id, payment_amount, fault) ==
    /\ RoomFor(1)
    /\ Returns([op |-> "make_loan_payment", loan_id |-> loan_id,
                payment_amount |-> payment_amount],
               make_loan_payment(Store, loan_id, payment_amount, fault), fault)

----------------------------------------------------------------------------
(* Sequential callers, stores that do not fail.                             *)

Init ==
    /\ impl \in {"main", "firebase"}
    /\ accounts = << >>
    /\ transactions = << >>
    /\ loans = << >>
    /\ in_transaction = FALSE
    /\ now = 0
    /\ faults = 0
    /\ result = [call |-> [op |-> "none"], fault |-> 0, ok |-> FALSE, reason |-> "",
                 raised |-> FALSE]
    /\ twin = [db |-> EmptyStore, ok |-> FALSE, reason |-> "", raised |-> FALSE]
    /\ calls = << >>

CreateAccount ==
    \E name \in Names, password \in Passwords, email \in Emails, account_no \in AccountIds :
        DoCreateAccount(name, password, email, account_no, 0)

RecordTransaction ==
    \E account_no \in AccountIds, transaction_type \in Kinds, amount \in Amounts,
       category \in Categories :
        DoRecordTransaction(account_no, transaction_type, amount, category, 0)

TransferMoney ==
    \E from_account \in AccountIds, to_account \in AccountIds, amount \in Amounts :
        DoTransferMoney(from_account, to_account, amount, 0)

ApplyForLoan ==
    \E account_no \in AccountIds, amount \in Amounts, term_months \in Terms,
       interest_rate \in Rates :
        DoApplyForLoan(account_no, amount, term_months, interest_rate, 0)

MakeLoanPayment ==
    \E loan_id \in LoanIds, payment_amount \in Amounts :
        DoMakeLoanPayment(loan_id, payment_amount, 0)

Next ==
    \/ CreateAccount
    \/ RecordTransaction
    \/ TransferMoney
    \/ ApplyForLoan
    \/ MakeLoanPayment

Spec == Init /\ [][Next]_vars

InitMain == Init /\ impl = "main"
SpecMain == InitMain /\ [][Next]_vars

InitFirebase == Init /\ impl = "firebase"
SpecFirebase == InitFirebase /\ [][Next]_vars

----------------------------------------------------------------------------
(* Accounts are registered first; then deposits and withdrawals on           *)
(* registered accounts only.                                                 *)

RegisterAccount ==
    /\ transactions = << >>
    /\ \E name \in Names, password \in Passwords, email \in Emails,
          account_no \in AccountIds :
           DoCreateAccount(name, password, email, account_no, 0)

DepositOrWithdraw ==
    \E account_no \in DOMAIN accounts, transaction_type \in Kinds, amount \in Amounts,
       category \in Categories :
        DoRecordTransaction(account_no, transaction_type, amount, category, 0)

NextDepositWithdraw == RegisterAccount \/ DepositOrWithdraw

SpecDepositWithdraw == Init /\ [][NextDepositWithdraw]_vars

(* Accounts are registered first; then any ledger call, any arguments.       *)

NextLedger ==
    \/ RegisterAccount
    \/ RecordTransaction
    \/ TransferMoney
    \/ ApplyForLoan
    \/ MakeLoanPayment

SpecLedger == Init /\ [][NextLedger]_vars

----------------------------------------------------------------------------
(* Loans of any principal, rate and positive term on registered accounts.    *)

LoanPrincipals == {1, 250, 1000}
LoanTerms == {1, 7, 12}
LoanRates == {0, 7, 10}

ApplyForLoanAnyTerms ==
    \E account_no \in DOMAIN accounts, amount \in LoanPrincipals,
       term_months \in LoanTerms, interest_rate \in LoanRates :
        DoApplyForLoan(account_no, amount, term_months, interest_rate, 0)

NextLoanTerms == RegisterAccount \/ ApplyForLoanAnyTerms

SpecLoanTerms == Init /\ [][NextLoanTerms]_vars

----------------------------------------------------------------------------
(* Accounts are registered first; then any ledger call, loans with and       *)
(* without interest: a loan at rate 0 can be paid down to exactly zero.      *)

RatesWithZero == {0, 50}

ApplyForLoanAnyRate ==
    \E account_no \in AccountIds, amount \in Amounts, term_months \in Terms,
       interest_rate \in RatesWithZero :
        DoApplyForLoan(account_no, amount, term_months, interest_rate, 0)

NextLoans ==
    \/ RegisterAccount
    \/ RecordTransaction
    \/ TransferMoney
    \/ ApplyForLoanAnyRate
    \/ MakeLoanPayment

SpecLoans == Init /\ [][NextLoans]_vars

----------------------------------------------------------------------------
(* Accounts are registered first; then any ledger call, make_loan_payment    *)
(* with any number as payment_amount.                                        *)

AnyAmounts == {-1, 1, 2}

MakeLoanPaymentAnyAmount ==
    \E loan_id \in LoanIds, payment_amount \in AnyAmounts :
        DoMakeLoanPayment(loan_id, payment_amount, 0)

NextAnyPayment ==
    \/ RegisterAccount
    \/ RecordTransaction
    \/ TransferMoney
    \/ ApplyForLoan
    \/ MakeLoanPaymentAnyAmount

SpecAnyPayment == Init /\ [][NextAnyPayment]_vars

----------------------------------------------------------------------------
(* The life of a loan: accounts are registered first; then deposits,         *)
(* withdrawals and loans on registered accounts, transfers, payments of any  *)
(* amount, and days going by between the calls.                              *)

Instants == {0, 1}

\* datetime.now() has moved on by the next call.
Tick ==
    /\ \E later \in Instants : later > now /\ now' = later
    /\ UNCHANGED <<impl, accounts, transactions, loans, in_transaction, faults, result,
                   twin, calls>>

ApplyForLoanRegistered ==
    \E account_no \in DOMAIN accounts, amount \in Amounts, term_months \in Terms,
       interest_rate \in RatesWithZero :
        DoApplyForLoan(account_no, amount, term_months, interest_rate, 0)

NextLoanLife ==
    \/ RegisterAccount
    \/ DepositOrWithdraw
    \/ TransferMoney
    \/ ApplyForLoanRegistered
    \/ MakeLoanPaymentAnyAmount
    \/ Tick

SpecLoanLife == Init /\ [][NextLoanLife]_vars

----------------------------------------------------------------------------
(* Accounts are registered first; then ledger calls on the clock, and the    *)
(* history of an account read between them.                                  *)

\* A query: the store is left alone, the rows go to the caller.
GetTransactionHistory ==
    /\ \E account_no \in AccountIds :
          result' = [call |-> [op |-> "get_transaction_history",
                               account_no |-> account_no],
                     fault |-> 0, ok |-> TRUE, reason |-> "", raised |-> FALSE,
                     rows |-> get_transaction_history(Store, account_no)]
    /\ UNCHANGED <<impl, accounts, transactions, loans, in_transaction, now, faults,
                   twin, calls>>

NextHistory ==
    \/ RegisterAccount
    \/ DepositOrWithdraw
    \/ TransferMoney
    \/ ApplyForLoan
    \/ MakeLoanPayment
    \/ Tick
    \/ GetTransactionHistory

SpecHistory == Init /\ [][NextHistory]_vars

----------------------------------------------------------------------------
(* Accounts are registered first; then deposits and withdrawals, and logins  *)
(* with the right and with a wrong password, the store answering or not.     *)

LoginPasswords == {"pw1", "pw2"}

\* A query: the store is left alone, the row or None goes to the caller.
DoValidateLogin(account_no, password, fault) ==
    /\ fault = 0 \/ faults < MaxFaults
    /\ faults' = IF fault = 0 THEN faults ELSE faults + 1
    /\ LET r == validate_login(Store, account_no, password, fault)
       IN  result' = [call |-> [op |-> "validate_login", account_no |-> account_no,
                                password |-> password],
                      fault |-> fault, ok |-> r.row # None, reason |-> "",
                      raised |-> r.raised, row |-> r.row]
    /\ UNCHANGED <<impl, accounts, transactions, loans, in_transaction, now, twin, calls>>

ValidateLogin ==
    \E account_no \in AccountIds, password \in LoginPasswords :
        DoValidateLogin(account_no, password, 0)

FaultyValidateLogin ==
    \E account_no \in AccountIds, password \in LoginPasswords :
        DoValidateLogin(account_no, password, 1)

NextLogin ==
    \/ RegisterAccount
    \/ DepositOrWithdraw
    \/ ValidateLogin
    \/ FaultyValidateLogin

SpecLogin == Init /\ [][NextLogin]_vars

----------------------------------------------------------------------------
(* Registration with well-formed and malformed addresses, then deposits and  *)
(* withdrawals.                                                              *)

AnyEmails == Emails \cup {"not-an-email"}

CreateAccountAnyEmail ==
    \E name \in Names, password \in Passwords, email \in AnyEmails,
       account_no \in AccountIds :
        DoCreateAccount(name, password, email, account_no, 0)

NextAnyEmail == CreateAccountAnyEmail \/ DepositOrWithdraw

SpecAnyEmail == Init /\ [][NextAnyEmail]_vars

----------------------------------------------------------------------------
(* Every ledger call, and BankingSystem instances constructed while the      *)
(* service has data: each browser session constructs its own.                *)

NewBankingSystem ==
    Returns([op |-> "BankingSystem"], Outcome(new_banking_system(Store), TRUE, ""), 0)

NextRestart == Next \/ NewBankingSystem

SpecRestart == Init /\ [][NextRestart]_vars

----------------------------------------------------------------------------
(* Accounts are registered first; then the four ledger handlers called with  *)
(* any number as amount and any string as transaction type.                  *)

AnyNumbers == {-1, 0, 1}
AnyKinds == Kinds \cup {"refund"}

RecordTransactionAnyArguments ==
    \E account_no \in AccountIds, transaction_type \in AnyKinds, amount \in AnyNumbers,
       category \in Categories :
        DoRecordTransaction(account_no, transaction_type, amount, category, 0)

TransferMoneyAnyAmount ==
    \E from_account \in AccountIds, to_account \in AccountIds, amount \in AnyNumbers :
        DoTransferMoney(from_account, to_account, amount, 0)

ApplyForLoanAnyAmount ==
    \E account_no \in AccountIds, amount \in AnyNumbers, term_months \in Terms,
       interest_rate \in Rates :
        DoApplyForLoan(account_no, amount, term_months, interest_rate, 0)

NextAnyArguments ==
    \/ RegisterAccount
    \/ RecordTransactionAnyArguments
    \/ TransferMoneyAnyAmount
    \/ ApplyForLoanAnyAmount
    \/ MakeLoanPaymentAnyAmount

SpecAnyArguments == Init /\ [][NextAnyArguments]_vars

----------------------------------------------------------------------------
(* The two implementations in lockstep: every call goes, with the same       *)
(* arguments, to main.py on the relational store and to Firebase_code.py on  *)
(* the document store twin.db.  Accounts are registered first; both         *)
(* identifier generators give the same, unused account_no, and a loan has    *)
(* the same number in both stores.                                           *)

InitLockstep == Init /\ impl = "main"

RoomForBoth(n) ==
    RoomFor(n) /\ Len(twin.db.transactions) + n <= MaxTransactions

\* rm: what main.py left and returned; rf: what Firebase_code.py did.
Lockstep(call, rm, rf) ==
    /\ accounts' = rm.db.accounts
    /\ transactions' = rm.db.transactions
    /\ loans' = rm.db.loans
    /\ in_transaction' = rm.db.in_transaction
    /\ result' = [call |-> call, fault |-> 0, ok |-> rm.ok, reason |-> rm.reason,
                  raised |-> rm.raised]
    /\ twin' = [db |-> rf.db, ok |-> rf.ok, reason |-> rf.reason, raised |-> rf.raised]
    /\ UNCHANGED <<impl, now, faults, calls>>

LockstepCreateAccount ==
    /\ transactions = << >> /\ twin.db.transactions = << >>
    /\ \E name \in Names, password \in Passwords, email \in Emails,
          account_no \in AccountIds \ (DOMAIN accounts \cup DOMAIN twin.db.accounts) :
        Lockstep([op |-> "create_account", name |-> name, password |-> password,
                  email |-> email, account_no |-> account_no],
                 main_create_account(Store, name, password, email, account_no, 0),
                 fb_create_account(twin.db, name, password, email, account_no, 0))

LockstepRecordTransaction ==
    /\ RoomForBoth(1)
    /\ \E account_no \in AccountIds, transaction_type \in Kinds, amount \in Amounts,
          category \in Categories :
           Lockstep([op |-> "record_transaction", account_no |-> account_no,
                     transaction_type |-> transaction_type, amount |-> amount],
                    main_record_transaction(Store, account_no, transaction_type, amount,
                                            category, None, 0),
                    fb_record_transaction(twin.db, account_no, transaction_type, amount,
                                          category, None, 0))

LockstepTransferMoney ==
    /\ RoomForBoth(2)
    /\ \E from_account \in AccountIds, to_account \in AccountIds, amount \in Amounts :
           Lockstep([op |-> "transfer_money", from_account |-> from_account,
                     to_account |-> to_account, amount |-> amount],
                    main_transfer_money(Store, from_account, to_account, amount, 0),
                    fb_transfer_money(twin.db, from_account, to_account, amount, 0))

LockstepApplyForLoan ==
    /\ RoomForBoth(1)
    /\ Len(loans) < MaxLoans /\ Len(twin.db.loans) < MaxLoans
    /\ \E account_no \in AccountIds, amount \in Amounts, term_months \in Terms,
          interest_rate \in Rates :
           Lockstep([op |-> "apply_for_loan", account_no |-> account_no,
                     amount |-> amount, term_months |-> term_months,
                     interest_rate |-> interest_rate],
                    main_apply_for_loan(Store, account_no, amount, term_months,
                                        interest_rate, 0),
                    fb_apply_for_loan(twin.db, account_no, amount, term_months,
                                      interest_rate, 0))

LockstepMakeLoanPayment ==
    /\ RoomForBoth(1)
    /\ \E loan_id \in LoanIds, payment_amount \in Amounts :
           Lockstep([op |-> "make_loan_payment", loan_id |-> loan_id,
                     payment_amount |-> payment_amount],
                    main_make_loan_payment(Store, loan_id, payment_amount, 0),
                    fb_make_loan_payment(twin.db, loan_id, payment_amount, 0))

NextLockstep ==
    \/ LockstepCreateAccount
    \/ LockstepRecordTransaction
    \/ LockstepTransferMoney
    \/ LockstepApplyForLoan
    \/ LockstepMakeLoanPayment

SpecLockstep == InitLockstep /\ [][NextLockstep]_vars

----------------------------------------------------------------------------
(* Callers at once on the document store: each session makes one call at a  *)
(* time, and the sessions' reads and writes interleave freely.              *)

Sessions == {1, 2}

\* The account the sessions' calls draw on; the other account only receives.
SharedAccount == "A1"

\* Two accounts have been opened, one after the other, before the sessions
\* start calling.
TwoAccounts ==
    LET first == fb_create_account(EmptyStore, "n1", "pw1", "a@x.io", "A1", 0).db
    IN  fb_create_account(first, "n1", "pw1", "b@x.io", "A2", 0).db.accounts

InitConcurrent ==
    /\ impl = "firebase"
    /\ accounts = TwoAccounts
    /\ transactions = << >>
    /\ loans = << >>
    /\ in_transaction = FALSE
    /\ now = 0
    /\ faults = 0
    /\ result = [call |-> [op |-> "none"], fault |-> 0, ok |-> FALSE, reason |-> "",
                 raised |-> FALSE]
    /\ twin = [db |-> EmptyStore, ok |-> FALSE, reason |-> "", raised |-> FALSE]
    /\ calls = << >>

InitConcurrentCreate == Init /\ impl = "firebase"

Idle(s) == s \notin DOMAIN calls

At(s, pc) == s \in DOMAIN calls /\ calls[s].pc = pc

RECURSIVE RecordsToCome(_)
RecordsToCome(pending) ==
    IF pending = << >> THEN 0
    ELSE (IF Head(pending).kind = "transaction" THEN 1 ELSE 0)
         + RecordsToCome(Tail(pending))

RECURSIVE Unwritten(_)
Unwritten(ss) ==
    IF ss = {} THEN 0
    ELSE LET s == CHOOSE x \in ss : TRUE
         IN  RecordsToCome(calls[s].pending) + Unwritten(ss \ {s})

\* The model starts no call whose records would take the log past its bound.
RoomAmongCalls(n) ==
    Len(transactions) + Unwritten(DOMAIN calls) + n <= MaxTransactions

ReturnedBy(c) ==
    [call |-> c.call, fault |-> 0, ok |-> c.ok, reason |-> c.reason, raised |-> c.raised]

Without(f, k) == [x \in (DOMAIN f) \ {k} |-> f[x]]

\* Session s is at c after a step that wrote nothing; a call that has returned
\* is no longer in flight.
Proceeds(s, c) ==
    /\ calls' = IF c.pc = "returned" THEN Without(calls, s) ELSE Put(calls, s, c)
    /\ result' = IF c.pc = "returned" THEN ReturnedBy(c) ELSE result
    /\ UNCHANGED <<impl, accounts, transactions, loans, in_transaction, now, faults, twin>>

BeginRecordTransaction(s) ==
    /\ Idle(s)
    /\ RoomAmongCalls(1)
    /\ \E account_no \in {SharedAccount}, transaction_type \in Kinds, amount \in Amounts,
          category \in Categories :
           Proceeds(s, fb_record_transaction_read(Store,
                          [op |-> "record_transaction", account_no |-> account_no,
                           transaction_type |-> transaction_type, amount |-> amount,
                           category |-> category]))

BeginTransferMoney(s) ==
    /\ Idle(s)
    /\ RoomAmongCalls(2)
    /\ \E from_account \in {SharedAccount}, to_account \in AccountIds, amount \in Amounts :
           Proceeds(s, fb_transfer_money_read_sender(Store,
                          [op |-> "transfer_money", from_account |-> from_account,
                           to_account |-> to_account, amount |-> amount]))

ReadReceiver(s) ==
    /\ At(s, "receiver")
    /\ Proceeds(s, fb_transfer_money_read_receiver(Store, calls[s]))

BeginMakeLoanPayment(s) ==
    /\ Idle(s)
    /\ RoomAmongCalls(1)
    /\ \E loan_id \in LoanIds, payment_amount \in Amounts :
           Proceeds(s, fb_make_loan_payment_read_loan(Store,
                          [op |-> "make_loan_payment", loan_id |-> loan_id,
                           payment_amount |-> payment_amount]))

ReadLoanAccount(s) ==
    /\ At(s, "account")
    /\ Proceeds(s, fb_make_loan_payment_read_account(Store, calls[s]))

BeginCreateAccount(s) ==
    /\ Idle(s)
    /\ \E name \in Names, password \in Passwords, email \in Emails,
          account_no \in AccountIds :
           Proceeds(s, fb_create_account_query(Store,
                          [op |-> "create_account", name |-> name,
                           password |-> password, email |-> email,
                           account_no |-> account_no]))

\* The next write of the call of session s reaches the store; after its last
\* write the call returns.
WriteNext(s) ==
    /\ At(s, "write")
    /\ LET c == calls[s]
           db == fb_write(Store, Head(c.pending))
           rest == Tail(c.pending)
           after == [c EXCEPT !.pending = rest,
                              !.pc = IF rest = << >> THEN "returned" ELSE "write"]
       IN  /\ accounts' = db.accounts
           /\ transactions' = db.transactions
           /\ loans' = db.loans
           /\ calls' = IF rest = << >> THEN Without(calls, s)
                                        ELSE [calls EXCEPT ![s] = after]
           /\ result' = IF rest = << >> THEN ReturnedBy(after) ELSE result
    /\ UNCHANGED <<impl, in_transaction, now, faults, twin>>

\* apply_for_loan by a caller whose reads and writes no other call comes
\* between; the sessions pay on the one loan it opens.
ApplyForLoanAlone ==
    /\ loans = << >>
    /\ RoomAmongCalls(1)
    /\ \E account_no \in {SharedAccount}, amount \in Amounts, term_months \in Terms,
          interest_rate \in Rates :
           DoApplyForLoan(account_no, amount, term_months, interest_rate, 0)

NextConcurrent ==
    \/ ApplyForLoanAlone
    \/ \E s \in Sessions :
          \/ BeginRecordTransaction(s)
          \/ BeginTransferMoney(s)
          \/ ReadReceiver(s)
          \/ BeginMakeLoanPayment(s)
          \/ ReadLoanAccount(s)
          \/ WriteNext(s)

SpecConcurrent == InitConcurrent /\ [][NextConcurrent]_vars

NextConcurrentCreate ==
    \E s \in Sessions :
        \/ BeginCreateAccount(s)
        \/ WriteNext(s)

SpecConcurrentCreate == InitConcurrentCreate /\ [][NextConcurrentCreate]_vars

----------------------------------------------------------------------------
(* Sequential callers, a store whose fault-th write of a call may raise.     *)

FaultyCreateAccount ==
    \E name \in Names, password \in Passwords, email \in Emails, account_no \in AccountIds :
        DoCreateAccount(name, password, email, account_no, 1)

FaultyRecordTransaction ==
    \E account_no \in AccountIds, transaction_type \in Kinds, amount \in Amounts,
       category \in Categories, fault \in 1 .. 2 :
        DoRecordTransaction(account_no, transaction_type, amount, category, fault)

FaultyTransferMoney ==
    \E from_account \in AccountIds, to_account \in AccountIds, amount \in Amounts,
       fault \in 1 .. 4 :
        DoTransferMoney(from_account, to_account, amount, fault)

FaultyApplyForLoan ==
    \E account_no \in AccountIds, amount \in Amounts, term_months \in Terms,
       interest_rate \in Rates, fault \in 1 .. 3 :
        DoApplyForLoan(account_no, amount, term_months, interest_rate, fault)

FaultyMakeLoanPayment ==
    \E loan_id \in LoanIds, payment_amount \in Amounts, fault \in 1 .. 3 :
        DoMakeLoanPayment(loan_id, payment_amount, fault)

NextFault ==
    \/ Next
    \/ FaultyCreateAccount
    \/ FaultyRecordTransaction
    \/ FaultyTransferMoney
    \/ FaultyApplyForLoan
    \/ FaultyMakeLoanPayment

SpecFault == Init /\ [][NextFault]_vars

----------------------------------------------------------------------------
(* What the claims speak of.                                                *)

Exists(account_no) == account_no \in DOMAIN accounts

Owned(log, account_no) == SelectSeq(log, LAMBDA t : t.account_no = account_no)

RECURSIVE SumSeq(_)
SumSeq(values) ==
    IF values = << >> THEN 0 ELSE Head(values) + SumSeq(Tail(values))

RECURSIVE SumBalances(_)
SumBalances(ids) ==
    IF ids = {} THEN 0
    ELSE LET a == CHOOSE x \in ids : TRUE
         IN  accounts[a].balance + SumBalances(ids \ {a})

RECURSIVE SumBalancesNext(_)
SumBalancesNext(ids) ==
    IF ids = {} THEN 0
    ELSE LET a == CHOOSE x \in ids : TRUE
         IN  accounts'[a].balance + SumBalancesNext(ids \ {a})

DepositWithdrawValue(t) ==
    IF t.transaction_type = "deposit" THEN t.amount
    ELSE IF t.transaction_type = "withdraw" THEN -t.amount
    ELSE 0

SignedValue(t) ==
    IF t.transaction_type \in {"deposit", "transfer_in", "loan_disbursement"}
    THEN t.amount
    ELSE IF t.transaction_type \in {"withdraw", "transfer_out", "loan_payment"}
    THEN -t.amount
    ELSE 0

DepositWithdrawSum(account_no) ==
    LET log == Owned(transactions, account_no)
    IN  SumSeq([i \in DOMAIN log |-> DepositWithdrawValue(log[i])])

SignedSum(account_no) ==
    LET log == Owned(transactions, account_no)
    IN  SumSeq([i \in DOMAIN log |-> SignedValue(log[i])])

Called(op) == result'.call.op = op

\* C1: after every deposit or withdrawal on a registered account, in either
\* implementation, each account's balance is the sum of its recorded deposits
\* minus the sum of its recorded withdrawals.
C1_DepositWithdrawBalance ==
    \A a \in DOMAIN accounts :
        accounts[a].balance = DepositWithdrawSum(a)

C1_Witness ==
    /\ result.call.op = "record_transaction"
    /\ result.call.transaction_type = "withdraw"
    /\ result.ok
    /\ Len(Owned(transactions, result.call.account_no)) >= 2
    /\ accounts[result.call.account_no].balance = 1

\* C2: in every state reached by sequential calls with any account arguments,
\* every account's balance is the signed sum of its transaction records
\* (deposit, transfer_in, loan_disbursement positive; withdraw, transfer_out,
\* loan_payment negative).
C2_AccountingIdentity ==
    \A a \in DOMAIN accounts :
        SignedSum(a) = accounts[a].balance

\* C3: a transfer_money call that returns success leaves the sum of all
\* balances as it was, also when sender and recipient are the same account.
C3_TransferConservesTotal ==
    [][(Called("transfer_money") /\ result'.ok)
          => SumBalancesNext(DOMAIN accounts') = SumBalances(DOMAIN accounts)]_vars

\* C4: a transfer_money(from, to, amount) call that returns success appends
\* exactly a transfer_out record of from naming to and a transfer_in record of
\* to naming from, both of the amount; and every transfer_out record in the log
\* is followed by its transfer_in record.
IsTransferPair(out, in, from_account, to_account, amount) ==
    /\ out.transaction_type = "transfer_out"
    /\ out.account_no = from_account
    /\ out.recipient_account = to_account
    /\ out.amount = amount
    /\ in.transaction_type = "transfer_in"
    /\ in.account_no = to_account
    /\ in.recipient_account = from_account
    /\ in.amount = amount

C5_TransferAllOrNothing ==
    [][(Called("transfer_money") /\ ~result'.ok)
          => (accounts' = accounts /\ transactions' = transactions)]_vars

\* C6: a record_transaction call that does not return True (one of its two
\* writes raised) leaves the balance and the log as they were.
C6_RecordAllOrNothing ==
    [][(Called("record_transaction") /\ ~result'.ok)
          => (accounts' = accounts /\ transactions' = transactions)]_vars

\* C7: a withdrawal of more than the account's balance returns False and
\* leaves the balances and the log as they were.
C7_OverdraftDeclined ==
    [][(/\ Called("record_transaction")
        /\ result'.call.transaction_type = "withdraw"
        /\ Exists(result'.call.account_no)
        /\ result'.call.amount > accounts[result'.call.account_no].balance)
          => (~result'.ok /\ accounts' = accounts /\ transactions' = transactions)]_vars

C7_Witness ==
    /\ result.call.op = "record_transaction"
    /\ result.call.transaction_type = "withdraw"
    /\ Exists(result.call.account_no)
    /\ accounts[result.call.account_no].balance = 1
    /\ result.call.amount = 2
    /\ ~result.ok

\* C8: transfer_money to an account that does not exist fails with "Recipient
\* account not found"; to an existing account from an account whose balance is
\* under the amount it fails with "Insufficient funds"; neither changes a
\* balance or the log.
C8_TransferDeclined ==
    [][Called("transfer_money")
          => /\ ~Exists(result'.call.to_account)
                  => /\ ~result'.ok
                     /\ result'.reason = "Recipient account not found"
                     /\ accounts' = accounts /\ transactions' = transactions
             /\ (/\ Exists(result'.call.to_account)
                 /\ Exists(result'.call.from_account)
                 /\ accounts[result'.call.from_account].balance < result'.call.amount)
                  => /\ ~result'.ok
                     /\ result'.reason = "Insufficient funds"
                     /\ accounts' = accounts /\ transactions' = transactions]_vars

C8_Witness ==
    /\ result.call.op = "transfer_money"
    /\ Exists(result.call.to_account)
    /\ Exists(result.call.from_account)
    /\ result.call.from_account # result.call.to_account
    /\ accounts[result.call.from_account].balance = 1
    /\ result.call.amount = 2
    /\ result.reason = "Insufficient funds"

\* C9: every transaction record is owned by an account of the account store.
C9_TransactionsOwnedByAccounts ==
    \A i \in DOMAIN transactions : Exists(transactions[i].account_no)

\* C10: a successful apply_for_loan on an existing account adds the principal
\* to that account's balance and to no other, appends one loan_disbursement
\* record of the principal, and appends one active loan whose remaining amount
\* is the principal plus principal * rate * term / 1200; nothing else changes.
C10_LoanDisbursed ==
    [][(Called("apply_for_loan") /\ result'.ok /\ Exists(result'.call.account_no))
          => LET a == result'.call.account_no
                 p == result'.call.amount
                 n == Len(transactions) + 1
                 k == Len(loans) + 1
             IN  /\ accounts' = [accounts EXCEPT ![a].balance = @ + p]
                 /\ Len(transactions') = n
                 /\ SubSeq(transactions', 1, n - 1) = transactions
                 /\ transactions'[n].account_no = a
                 /\ transactions'[n].transaction_type = "loan_disbursement"
                 /\ transactions'[n].amount = p
                 /\ Len(loans') = k
                 /\ SubSeq(loans', 1, k - 1) = loans
                 /\ loans'[k].account_no = a
                 /\ loans'[k].amount = p
                 /\ loans'[k].status = "active"
                 /\ loans'[k].remaining_amount.num * 1200 =
                       (1200 * p + p * result'.call.interest_rate
                                     * result'.call.term_months)
                          * loans'[k].remaining_amount.den]_vars

C10_Witness ==
    /\ result.call.op = "apply_for_loan"
    /\ result.ok
    /\ Exists(result.call.account_no)
    /\ accounts[result.call.account_no].balance = 3
    /\ Len(loans) = 1
    /\ loans[1].remaining_amount = [num |-> 3, den |-> 1]

\* C11: for every principal, annual rate and positive term, apply_for_loan
\* computes total interest = principal * rate * term / 1200, total repayable =
\* principal + total interest (stored as the remaining amount) and monthly
\* payment = total repayable / term; (1000, 12 months, 10 percent) gives
\* interest 100, total 1100 and 12 * monthly payment = 1100.
C11_LoanFigures ==
    /\ [][(Called("apply_for_loan") /\ result'.ok)
             => LET p == result'.call.amount
                    r == result'.call.interest_rate
                    t == result'.call.term_months
                    loan == loans'[Len(loans')]
                    interest == total_interest(p, r, t)
                    total == loan.remaining_amount
                    monthly == loan.monthly_payment
                IN  /\ t > 0
                    /\ interest.num * 1200 = p * r * t * interest.den
                    /\ total.num * interest.den =
                          (p * interest.den + interest.num) * total.den
                    /\ total = total_amount(p, r, t)
                    /\ monthly.num * t * total.den = total.num * monthly.den]_vars
    /\ [](/\ total_interest(1000, 10, 12) = FromInt(100)
          /\ total_amount(1000, 10, 12) = FromInt(1100)
          /\ monthly_payment(1000, 10, 12).num * 12
                = 1100 * monthly_payment(1000, 10, 12).den)

C11_Witness ==
    /\ result.call.op = "apply_for_loan"
    /\ result.ok
    /\ result.call.amount = 1000
    /\ result.call.term_months = 12
    /\ result.call.interest_rate = 10
    /\ loans[Len(loans)].remaining_amount = [num |-> 1100, den |-> 1]
    /\ loans[Len(loans)].monthly_payment = [num |-> 275, den |-> 3]

\* C12: a successful make_loan_payment(loan, payment_amount) sets the loan's
\* remaining amount to the old one minus payment_amount, its status to
\* completed if and only if the new remaining amount is <= 0 (active
\* otherwise), lowers the owning account's balance by exactly payment_amount
\* and appends exactly one loan_payment record of payment_amount; an
\* overpayment is debited in full and leaves the remaining amount negative.
C12_LoanPaymentApplied ==
    [][(Called("make_loan_payment") /\ result'.ok)
          => LET id == result'.call.loan_id
                 pay == result'.call.payment_amount
                 n == Len(transactions) + 1
             IN  /\ id \in DOMAIN loans
                 /\ DOMAIN loans' = DOMAIN loans
                 /\ \A other \in DOMAIN loans : other # id => loans'[other] = loans[other]
                 /\ loans'[id].remaining_amount.num * loans[id].remaining_amount.den =
                       (loans[id].remaining_amount.num
                           - pay * loans[id].remaining_amount.den)
                          * loans'[id].remaining_amount.den
                 /\ loans'[id].remaining_amount.den > 0
                 /\ loans'[id].status \in {"active", "completed"}
                 /\ loans'[id].status = "completed"
                       <=> loans'[id].remaining_amount.num <= 0
                 /\ Exists(loans[id].account_no)
                 /\ accounts' = [accounts EXCEPT ![loans[id].account_no].balance = @ - pay]
                 /\ Len(transactions') = n
                 /\ SubSeq(transactions', 1, n - 1) = transactions
                 /\ transactions'[n].account_no = loans[id].account_no
                 /\ transactions'[n].transaction_type = "loan_payment"
                 /\ transactions'[n].amount = pay]_vars

\* An overpayment: 2 paid on a loan with 3/2 remaining.
C12_Witness ==
    /\ result.call.op = "make_loan_payment"
    /\ result.ok
    /\ result.call.payment_amount = 2
    /\ loans[result.call.loan_id].remaining_amount = [num |-> -1, den |-> 2]
    /\ loans[result.call.loan_id].status = "completed"
    /\ accounts[loans[result.call.loan_id].account_no].balance = 0

\* C13: make_loan_payment on a loan that does not exist or is completed fails
\* with "Loan not found or inactive"; on an active loan whose owning account
\* holds less than payment_amount it fails with "Insufficient funds"; in both
\* cases the loans, the balances and the log are left as they were.
LedgerUnchanged ==
    /\ accounts' = accounts
    /\ transactions' = transactions
    /\ loans' = loans

LoanPayable(loan_id) ==
    loan_id \in DOMAIN loans /\ loans[loan_id].status = "active"

C13_LoanPaymentDeclined ==
    [][Called("make_loan_payment")
          => LET id == result'.call.loan_id
                 pay == result'.call.payment_amount
             IN  /\ ~LoanPayable(id)
                      => /\ ~result'.ok
                         /\ result'.reason = "Loan not found or inactive"
                         /\ LedgerUnchanged
                 /\ (/\ LoanPayable(id)
                     /\ Exists(loans[id].account_no)
                     /\ accounts[loans[id].account_no].balance < pay)
                      => /\ ~result'.ok
                         /\ result'.reason = "Insufficient funds"
                         /\ LedgerUnchanged]_vars

\* C14: from one state to the next, whatever the operation and whatever the
\* payment_amount passed to make_loan_payment, no loan disappears and no
\* loan's remaining amount increases.
RatLeq(p, q) == p.num * q.den <= q.num * p.den

C14_RemainingNeverIncreases ==
    [][\A id \in DOMAIN loans :
          /\ id \in DOMAIN loans'
          /\ RatLeq(loans'[id].remaining_amount, loans[id].remaining_amount)]_vars

\* C15: once a loan's status is completed, no later step changes its status,
\* its remaining amount or its next payment date, and every later
\* make_loan_payment on it is declined and leaves every balance and the log as
\* they were.
LoanCompleted(loan_id) ==
    loan_id \in DOMAIN loans /\ loans[loan_id].status = "completed"

C15_CompletedIsAbsorbing ==
    /\ [][\A id \in DOMAIN loans :
             LoanCompleted(id)
                => /\ id \in DOMAIN loans'
                   /\ loans'[id].status = "completed"
                   /\ loans'[id].remaining_amount = loans[id].remaining_amount
                   /\ loans'[id].next_payment_date = loans[id].next_payment_date]_vars
    /\ [][(/\ now' = now
           /\ Called("make_loan_payment")
           /\ LoanCompleted(result'.call.loan_id))
             => /\ ~result'.ok
                /\ accounts' = accounts
                /\ transactions' = transactions]_vars

\* A payment that the account could afford, made a day after the loan was
\* completed, is declined.
C15_Witness ==
    /\ result.call.op = "make_loan_payment"
    /\ LoanCompleted(result.call.loan_id)
    /\ ~result.ok
    /\ result.reason = "Loan not found or inactive"
    /\ Exists(loans[result.call.loan_id].account_no)
    /\ accounts[loans[result.call.loan_id].account_no].balance >= result.call.payment_amount
    /\ loans[result.call.loan_id].next_payment_date # now + PaymentPeriodDays

\* C16: an apply_for_loan or make_loan_payment call one of whose writes (loan
\* record, account balance, transaction record) raised reports failure and
\* leaves the loans, the balances and the log as they were before the call.
C16_LoanCallsAllOrNothing ==
    [][((Called("apply_for_loan") \/ Called("make_loan_payment")) /\ result'.fault > 0)
          => (~result'.ok /\ LedgerUnchanged)]_vars

\* C17: with sequential callers, create_account with an email that an existing
\* account is registered with is rejected with "Email already registered",
\* creates no account and changes no existing account.
EmailTaken(email) == \E a \in DOMAIN accounts : accounts[a].email = email

C17_DuplicateEmailRejected ==
    [][(Called("create_account") /\ EmailTaken(result'.call.email))
          => /\ ~result'.ok
             /\ result'.reason = "Email already registered"
             /\ accounts' = accounts]_vars

C17_Witness ==
    /\ result.call.op = "create_account"
    /\ ~result.ok
    /\ result.reason = "Email already registered"
    /\ EmailTaken(result.call.email)
    /\ ~Exists(result.call.account_no)
    /\ Cardinality(DOMAIN accounts) = 1

\* C18: a successful create_account returns an identifier that no existing
\* account has, whatever identifier the generator produced; the new account
\* has balance zero and every account that existed is left as it was.
C18_FreshAccountId ==
    [][(Called("create_account") /\ result'.ok)
          => /\ result'.reason \notin DOMAIN accounts
             /\ result'.reason \in DOMAIN accounts'
             /\ accounts'[result'.reason].balance = 0
             /\ \A a \in DOMAIN accounts :
                   a \in DOMAIN accounts' /\ accounts'[a] = accounts[a]]_vars

\* C19: get_transaction_history(account) returns every transaction record the
\* account owns, each as often as the log holds it, and nothing else.
SameRecord(row, t) ==
    /\ row.transaction_type = t.transaction_type
    /\ row.amount = t.amount
    /\ row.category = t.category
    /\ row.recipient_account = t.recipient_account
    /\ row.timestamp = t.timestamp

C19_HistoryComplete ==
    result.call.op = "get_transaction_history"
       => LET owned == Owned(transactions, result.call.account_no)
              rows == result.rows
          IN  /\ Len(rows) = Len(owned)
              /\ \A i \in DOMAIN owned :
                    Len(SelectSeq(rows, LAMBDA r : SameRecord(r, owned[i])))
                       = Len(SelectSeq(owned, LAMBDA t : SameRecord(t, owned[i])))

\* C20: no create_account, record_transaction, transfer_money or
\* make_loan_payment call raises an exception for an expected business
\* condition (duplicate email, invalid email, insufficient funds, missing
\* recipient, missing or inactive loan): the call returns, and what it returns
\* is a failure.
ExpectedDecline ==
    \/ /\ Called("create_account")
       /\ EmailTaken(result'.call.email) \/ ~validate_email(result'.call.email)
    \/ /\ Called("record_transaction")
       /\ result'.call.transaction_type = "withdraw"
       /\ Exists(result'.call.account_no)
       /\ result'.call.amount > accounts[result'.call.account_no].balance
    \/ /\ Called("transfer_money")
       /\ \/ ~Exists(result'.call.to_account)
          \/ /\ Exists(result'.call.from_account)
             /\ accounts[result'.call.from_account].balance < result'.call.amount
    \/ /\ Called("make_loan_payment")
       /\ \/ ~LoanPayable(result'.call.loan_id)
          \/ /\ Exists(loans[result'.call.loan_id].account_no)
             /\ accounts[loans[result'.call.loan_id].account_no].balance
                   < result'.call.payment_amount

C20_DeclinesAreReturned ==
    [][ExpectedDecline => (~result'.raised /\ ~result'.ok)]_vars

\* C21: validate_login(account_id, password) returns the account's identifier,
\* name, email and current balance if and only if the account exists and the
\* hash of the password equals the stored hash; in every other case, a store
\* error included, it returns None; and it changes no state.
LoginMatches(account_no, password) ==
    /\ Exists(account_no)
    /\ accounts[account_no].password = hash_password(password)

C21_LoginFailsClosed ==
    [][Called("validate_login")
          => LET a == result'.call.account_no
             IN  /\ ~result'.raised
                 /\ (LoginMatches(a, result'.call.password) /\ result'.fault = 0)
                      => result'.row = <<a, accounts[a].name, accounts[a].email,
                                         accounts[a].balance>>
                 /\ ~(LoginMatches(a, result'.call.password) /\ result'.fault = 0)
                      => result'.row = None
                 /\ LedgerUnchanged
                 /\ in_transaction' = in_transaction]_vars

\* C22: create_account with an email that fails validate_email is rejected
\* with "Invalid email format" before the store is read or written: no account
\* is created, no identifier is returned and the store, the connection
\* included, is as it was.
C22_InvalidEmailRejected ==
    [][(Called("create_account") /\ ~validate_email(result'.call.email))
          => /\ ~result'.ok
             /\ result'.reason = "Invalid email format"
             /\ LedgerUnchanged
             /\ in_transaction' = in_transaction]_vars

\* C25: an account is never deleted: from one state to the next, whatever
\* the step (the construction of another BankingSystem included), every
\* account of the store stays in the store and every transaction record it
\* owns stays in the log.
IsPrefix(short, long) ==
    Len(short) <= Len(long) /\ SubSeq(long, 1, Len(short)) = short

C25_AccountsNeverDeleted ==
    [][\A a \in DOMAIN accounts :
          /\ a \in DOMAIN accounts'
          /\ IsPrefix(Owned(transactions, a), Owned(transactions', a))]_vars

\* C26: whatever amounts and types the callers pass to record_transaction,
\* transfer_money, apply_for_loan and make_loan_payment (zero and negative
\* amounts included), every record in the log has an amount > 0 and one of the
\* six transaction types.
TransactionTypes ==
    {"deposit", "withdraw", "transfer_out", "transfer_in", "loan_disbursement",
     "loan_payment"}

C26_RecordsWellFormed ==
    \A i \in DOMAIN transactions :
        /\ transactions[i].amount > 0
        /\ transactions[i].transaction_type \in TransactionTypes

\* C28: in the relational implementation a declined create_account leaves the
\* service as it was, the connection's open-transaction state included: the
\* deposit on an existing account that follows it returns True and raises the
\* balance by the amount.
AfterDeclinedCreateAccount ==
    result.call.op = "create_account" /\ ~result.ok

C28_DepositAfterDeclinedCreate ==
    [][(/\ impl = "main"
        /\ AfterDeclinedCreateAccount
        /\ Called("record_transaction")
        /\ result'.call.transaction_type = "deposit"
        /\ Exists(result'.call.account_no))
          => /\ result'.ok
             /\ accounts'[result'.call.account_no].balance =
                   accounts[result'.call.account_no].balance + result'.call.amount]_vars

\* C29: a successful make_loan_payment leaves the loan's next payment date
\* exactly 30 days after the next payment date the loan had before the
\* payment, whatever the day on which the payment is made.
C29_NextPaymentDateAdvances ==
    [][(/\ now' = now
        /\ Called("make_loan_payment")
        /\ result'.call.payment_amount > 0
        /\ result'.ok)
          => loans'[result'.call.loan_id].next_payment_date =
                loans[result'.call.loan_id].next_payment_date + PaymentPeriodDays]_vars

\* C30: fed the same sequence of ledger calls with the same arguments
\* (self-transfers and accounts that do not exist included), main.py and
\* Firebase_code.py return the same success or failure for every call and hold
\* the same accounts with the same balances and the same set of transaction
\* records.
RecordSet(log) ==
    {[account_no |-> log[i].account_no,
      transaction_type |-> log[i].transaction_type,
      amount |-> log[i].amount,
      category |-> log[i].category,
      recipient_account |-> log[i].recipient_account] : i \in DOMAIN log}

C30_ImplementationsAgree ==
    /\ twin.ok = result.ok
    /\ DOMAIN twin.db.accounts = DOMAIN accounts
    /\ \A a \in DOMAIN accounts : twin.db.accounts[a].balance = accounts[a].balance
    /\ RecordSet(twin.db.transactions) = RecordSet(transactions)

----------------------------------------------------------------------------
(* Callers at once on the document store.                                   *)

\* Session s made a write on this step that was not the last of its call.
WroteOn(s) ==
    /\ s \in DOMAIN calls
    /\ s \in DOMAIN calls'
    /\ calls[s].pc = "write"
    /\ calls'[s].pending = Tail(calls[s].pending)

\* The balance the call c is to store with its next write, from the balance it
\* read and the amount it was given.
FromWhatItRead(c) ==
    CASE c.call.op = "record_transaction" ->
            IF c.call.transaction_type = "deposit"
            THEN c.read[1].data.balance + c.call.amount
            ELSE c.read[1].data.balance - c.call.amount
      [] c.call.op = "transfer_money" ->
            IF Len(c.pending) = 4
            THEN c.read[1].data.balance - c.call.amount
            ELSE c.read[2].data.balance + c.call.amount
      [] c.call.op = "make_loan_payment" ->
            c.read[2].data.balance - c.call.payment_amount

\* The step appended to the log the record of a deposit or a withdrawal.
LoggedDepositOrWithdrawal ==
    /\ Len(transactions') = Len(transactions) + 1
    /\ transactions'[Len(transactions')].transaction_type \in Kinds

\* C23: in Firebase_code.py a balance-affecting call reads the balance and
\* later writes an absolute value: whatever other calls have stored in
\* between, the balance after a call's balance write is the balance that call
\* read, plus or minus its amount; and the step that logs the record of a
\* deposit or withdrawal is the one on which that call returns True.  Two
\* calls on one account can therefore both succeed and both be logged while
\* the balance shows one of them only (C23_Witness).
C23_BalanceWritesAreAbsolute ==
    [][/\ \A s \in Sessions :
             (WroteOn(s) /\ Head(calls[s].pending).kind = "balance")
                 => accounts'[Head(calls[s].pending).account_no].balance
                        = FromWhatItRead(calls[s])
       /\ LoggedDepositOrWithdrawal
              => LET t == transactions'[Len(transactions')]
                 IN  /\ result'.ok
                     /\ result'.call.op = "record_transaction"
                     /\ result'.call.account_no = t.account_no
                     /\ result'.call.transaction_type = t.transaction_type
                     /\ result'.call.amount = t.amount]_vars

\* Two deposits on the shared account are all that was ever called with
\* success; both are logged, no call is in flight, and the balance is the
\* amount of one of them.
C23_Witness ==
    /\ calls = << >>
    /\ Len(transactions) = 2
    /\ \A i \in 1 .. 2 : /\ transactions[i].account_no = SharedAccount
                         /\ transactions[i].transaction_type = "deposit"
    /\ result.ok /\ result.call.op = "record_transaction"
    /\ accounts[SharedAccount].balance
           < transactions[1].amount + transactions[2].amount

\* C24: whatever the interleaving of withdrawals, transfers and loan payments
\* of positive amounts on one account in Firebase_code.py, no stored balance
\* is negative.
C24_BalanceNeverNegative ==
    \A a \in DOMAIN accounts : accounts[a].balance >= 0

\* Two withdrawals have both passed the check on the same balance: together
\* they took out more than was ever put in, and the balance is not negative.
C24_Witness ==
    /\ calls = << >>
    /\ Len(transactions) = 3
    /\ \A i \in 1 .. 3 : transactions[i].account_no = SharedAccount
    /\ transactions[1].transaction_type = "deposit"
    /\ transactions[2].transaction_type = "withdraw"
    /\ transactions[3].transaction_type = "withdraw"
    /\ transactions[2].amount + transactions[3].amount > transactions[1].amount
    /\ accounts[SharedAccount].balance >= 0

\* C27: no two accounts hold the same email, also when two create_account
\* calls for one address run at once on the document store.
C27_EmailsUnique ==
    \A a, b \in DOMAIN accounts :
        a # b => accounts[a].email # accounts[b].email

====
